---- MODULE Spec2Model ----
(***************************************************************************)
(* Model of the provisioning server of score-ui (src/server/index.js):     *)
(* the four terraform lifecycle endpoints, the process supervisor          *)
(* runCommandWithStream and the server-sent event feed each endpoint       *)
(* writes, the status and score lookups, and the score renderer.  The      *)
(* external tool (terraform) is the environment: it may fail to spawn, it  *)
(* emits chunks on stdout and stderr, and it exits with a code.            *)
(***************************************************************************)
EXTENDS Integers, Sequences, FiniteSets, TLC

\* ---------------------------------------------------------------- bounds
\* A run explores one of a few scenarios (the budgets below), among them:
\* the lifecycle of one session, up to MaxProcs invocations without output,
MaxProcs == 2
\* one invocation whose child emits up to MaxChunks chunks,
MaxChunks == 3
\* and two invocations, of the same or of two sessions, side by side, whose
\* children emit up to MaxIsoChunks chunks together.
MaxIsoChunks == 2

\* ---------------------------------------------------------------- inputs
\* session identifiers are plain names: path.join(__dirname, 'environments',
\* sessionId) maps two different plain names to two different directories
Sessions == {"s1", "dev"}
NoSession == "undefined"
\* the session of the one-session budgets
OneSession == {"s1"}
Regions == {"eu-west-1", "us-east-1"}
NoRegion == "undefined"
RegionInputs == Regions \cup {NoRegion}
\* the region of the runs that use one
OneRegion == {"eu-west-1"}
\* the k-th chunk any child emits carries the k-th label
Labels == <<"A", "B", "C", "D", "E">>
Texts == {Labels[k] : k \in DOMAIN Labels}
\* exit codes of a child that ran (a child killed by a signal reports null,
\* which the 'close' callback treats as it treats 1: it is not === 0)
ExitCodes == {0, 1}
\* exit codes 'close' reports after a failed spawn (negative errno values)
SpawnErrno == {-2}
Ops == {"init", "plan", "apply", "destroy"}

\* the regions the form offers (AWS_REGIONS)
AWS_REGIONS ==
    {"us-east-1", "us-east-2", "us-west-1", "us-west-2", "eu-west-1",
     "eu-west-2", "eu-central-1", "ap-southeast-1", "ap-southeast-2",
     "ap-northeast-1", "ap-northeast-2", "sa-east-1"}

\* The body of a render request.  name: "" when missing or empty.  hasEnv,
\* hasServices: whether the keys environment and services are there.
\* region: NoRegion when missing.  type: "" when missing; the form sends
\* 'api'.  services: the keys of services with a truthy value.
\* executionEnvironment is left out of the requests, so that its default
\* applies.
Names == {"orders", ""}
RegionValues == {"eu-west-1", "mars-1", NoRegion}
Types == {"", "api"}
ServiceKeys == {"database", "cache", "queue", "messageQueue"}

\* no service, each service alone, the three the renderer knows, and all
ServiceChoices ==
    {{}, ServiceKeys \ {"messageQueue"}, ServiceKeys} \cup {{k} : k \in ServiceKeys}

Descriptors ==
    {d \in [name : Names, hasEnv : BOOLEAN, region : RegionValues,
            type : Types, hasServices : BOOLEAN, services : ServiceChoices] :
        /\ d.type = (IF d.hasEnv THEN "api" ELSE "")
        /\ ~d.hasEnv => d.region = NoRegion
        /\ ~d.hasServices => d.services = {}}

\* the two requests of the run that follows one invocation closely
FewDescriptors ==
    {d \in Descriptors :
        /\ d.hasEnv /\ d.region = "eu-west-1" /\ d.type = "api"
        /\ d.hasServices /\ d.services = {"database"}}
RootDir == "server"

VARIABLES
    fsDirs,     \* sessions whose directory environments/<sessionId> exists
    fsFiles,    \* fsFiles[s]: names of the files in that directory
    mainTf,     \* mainTf[s]: the text of its main.tf (<<>>: no such file)
    cwd,        \* current directory of the server process (process.chdir)
    procs,      \* the invocations of runCommandWithStream, in spawn order
    phase,      \* history: lifecycle position of each session, as the
                \* handlers' events define it (the server itself stores none)
    reply,      \* HTTP status of the answer to the last request (0: none yet)
    body,       \* JSON body of that answer (an event stream has none)
    processes,  \* the Map 'processes': session id -> [status, logs]
    scoreDir,   \* the directory server/environment: whether it exists, and
                \* the text of its score.yaml (<<>>: no such file)
    rendered,   \* history: one earlier successful render, as
                \* <<[desc, text, again]>>; again: the same request was
                \* rendered once more since
    hcl,        \* the last application of generateTerraformConfig, likewise
    called,     \* the last call of one of the server's helper functions,
                \* as <<[call, result]>>
    ui,         \* the state of the browser client (App): whether the
                \* terraform panel is shown, terraformStatus, terraformLogs,
                \* terraformError, its open EventSources, and as history
                \* how the last EventSource was closed
    budget      \* the invocations, chunks and sessions this run explores

vars == <<fsDirs, fsFiles, mainTf, cwd, procs, phase, reply, body, processes,
          scoreDir, rendered, hcl, called, ui, budget>>

RECURSIVE SumLen(_, _)
SumLen(ps, k) == IF k = 0 THEN 0 ELSE Len(ps[k].arrived) + SumLen(ps, k - 1)

\* number of output chunks the children have produced so far
TotalChunks == SumLen(procs, Len(procs))

NextText == Labels[TotalChunks + 1]

\* the sessionId query parameter: a session of this run, or absent
SessionInputs == budget.sessions \cup {NoSession}

\* ------------------------------------------------------------- messages
\* The text of an Error / of a feed payload: stderr text, an exit code
\* named in it, or a spawn failure.
EmptyMsg == [text |-> <<>>, codes |-> {}, spawn |-> FALSE]

\* JSON.stringify({ log: message })
LogEvent(t) == [kind |-> "log", msg |-> [EmptyMsg EXCEPT !.text = <<t>>]]

\* JSON.stringify({ status: 'completed' })
CompletedEvent == [kind |-> "status", msg |-> EmptyMsg]

\* JSON.stringify({ error: error.message })
ErrorEvent(m) == [kind |-> "error", msg |-> m]

\* new Error(error || `Process exited with code ${code}`)
RejectReason(error, code) ==
    IF error # <<>> THEN [EmptyMsg EXCEPT !.text = error]
                    ELSE [EmptyMsg EXCEPT !.codes = {code}]

\* the err of the child's 'error' event (spawn terraform ENOENT)
SpawnError == [EmptyMsg EXCEPT !.spawn = TRUE]

\* ------------------------------------------------------------- response
\* the JSON bodies of the answers
NoBody == [kind |-> "none", error |-> "", text |-> <<>>, status |-> "", logs |-> <<>>]

\* { error: ... }
ErrorBody(e) == [NoBody EXCEPT !.kind = "error", !.error = e]

\* { scoreFile: fileContent }
ScoreBody(t) == [NoBody EXCEPT !.kind = "score", !.text = t]

\* { status: process.status, logs: process.logs }
StatusBody(r) == [NoBody EXCEPT !.kind = "status", !.status = r.status, !.logs = r.logs]

\* the keys of the JSON object an event is written as: { log: message },
\* { status: 'completed' }, { error: error.message }
Payload(ev) ==
    CASE ev.kind = "log" -> {"log"}
      [] ev.kind = "status" -> {"status"}
      [] ev.kind = "error" -> {"error"}

\* { success: true, status: 'ok', message: 'Server is running' }
HealthBody == [NoBody EXCEPT !.kind = "health", !.status = "ok"]

\* res.write: a write after res.end() adds nothing to the feed
ResWrite(p, ev) ==
    IF p.ended THEN p ELSE [p EXCEPT !.feed = Append(@, ev)]

\* res.end()
ResEnd(p) == [p EXCEPT !.ended = TRUE]

\* -------------------------------------------------------------- promise
\* resolve / reject act on a pending promise only
CanSettle(p) == p.promise = "pending"

\* code === 0 ? resolve() : reject(...)
CloseOutcomeStderr(p, code) ==
    IF code = 0 /\ p.error = <<>> THEN "resolved" ELSE "rejected"

CloseOutcome(p, code) == IF code = 0 THEN "resolved" ELSE "rejected"

\* .then(() => { write completed; end }).catch(error => { write error; end })
OnSettledSilent(p) ==
    IF p.promise = "resolved"
    THEN ResEnd(ResWrite(p, CompletedEvent))
    ELSE ResEnd(p)

OnSettledOpen(p) ==
    IF p.promise = "resolved"
    THEN ResEnd(ResWrite(p, CompletedEvent))
    ELSE ResWrite(p, ErrorEvent(p.reason))

OnSettled(p) ==
    IF p.promise = "resolved"
    THEN ResEnd(ResWrite(p, CompletedEvent))
    ELSE ResEnd(ResWrite(p, ErrorEvent(p.reason)))

\* stdout 'data': write the log event
OnStdout(p, t) ==
    ResWrite([p EXCEPT !.arrived = Append(@, [stream |-> "stdout", text |-> t])],
             LogEvent(t))

\* stderr 'data': error += message; write the log event
OnStderrNoError(p, t) ==
    ResWrite([p EXCEPT !.arrived = Append(@, [stream |-> "stderr", text |-> t])],
             LogEvent(t))

OnStderrFirst(p, t) ==
    LET q == [p EXCEPT !.arrived = Append(@, [stream |-> "stderr", text |-> t]),
                       !.error = Append(@, t)]
    IN  IF q.ended THEN q ELSE [q EXCEPT !.feed = <<LogEvent(t)>> \o @]

OnStderrAsError(p, t) ==
    ResWrite([p EXCEPT !.arrived = Append(@, [stream |-> "stderr", text |-> t]),
                       !.error = Append(@, t)],
             ErrorEvent([EmptyMsg EXCEPT !.text = <<t>>]))

OnStderr(p, t) ==
    ResWrite([p EXCEPT !.arrived = Append(@, [stream |-> "stderr", text |-> t]),
                       !.error = Append(@, t)],
             LogEvent(t))

\* ---------------------------------------------------------------- phases
PhaseDuring(op) ==
    CASE op = "init" -> "initializing"
      [] op = "plan" -> "planning"
      [] op = "apply" -> "applying"
      [] op = "destroy" -> "destroying"

PhaseAfter(op) ==
    CASE op = "init" -> "initialized"
      [] op = "plan" -> "planned"
      [] op = "apply" -> "applied"
      [] op = "destroy" -> "destroyed"

PhaseSettled(p) ==
    IF p.promise = "resolved" THEN PhaseAfter(p.op) ELSE "error"

\* ------------------------------------------------------------ validation
\* if (!sessionId || !region)
InitInvalidNoRegion(sid, region) == sid = NoSession

InitInvalid(sid, region) == sid = NoSession \/ region = NoRegion

\* if (!sessionId)
SessionMissing(sid) == sid = NoSession

\* if (!fs.existsSync(envDir))
DirMissingOrBusy(sid) ==
    sid \notin fsDirs \/ phase[sid] \in {PhaseDuring(op) : op \in Ops}

DirMissing(sid) == sid \notin fsDirs

\* ----------------------------------------------------------------- spawn
\* path.join(__dirname, 'environments', sessionId): the working directory
\* of session sid, an absolute path
EnvDir(sid) == sid

\* spawn(command, args, { cwd }) and the promise around it; ok: whether the
\* executable could be started; dir: the directory the child runs in, the
\* cwd option of spawn
NewProcInherit(sid, op, ok) ==
    [sid |-> sid, op |-> op,
     dir |-> cwd,
     child |-> IF ok THEN "running" ELSE "spawnfail",
     exit |-> <<>>, arrived |-> <<>>, error |-> <<>>,
     promise |-> "pending", reason |-> EmptyMsg,
     feed |-> <<>>, ended |-> FALSE,
     sub |-> "reading",
     from |-> phase[sid]]

NewProc(sid, op, ok) ==
    [sid |-> sid, op |-> op,
     dir |-> EnvDir(sid),
     child |-> IF ok THEN "running" ELSE "spawnfail",
     exit |-> <<>>, arrived |-> <<>>, error |-> <<>>,
     promise |-> "pending", reason |-> EmptyMsg,
     feed |-> <<>>, ended |-> FALSE,
     sub |-> "reading",
     from |-> phase[sid]]

\* a child process of the invocation exists
Running(p) == p.child = "running"

\* The 'data' listeners keep both pipes of the child flowing and the value
\* res.write returns is ignored: the supervisor takes what the child writes
\* whether or not the subscriber reads, so the child is never blocked on a
\* full pipe.
CanDrainWhileRead(p) == p.sub = "reading"

CanDrain(p) == TRUE

\* node emits the 'error' of a failed spawn on process.nextTick, that is
\* before it handles any other request or child event
TickPending == \E i \in DOMAIN procs : procs[i].child = "spawnfail"

\* res.status(400).json({ error: ... }); the three messages of the lifecycle
\* endpoints ('Session ID and region are required', 'Session ID is
\* required', 'Environment directory not found') are not told apart
RejectBody == ErrorBody("required")

Reject ==
    /\ reply' = 400
    /\ body' = RejectBody
    /\ UNCHANGED <<fsDirs, fsFiles, mainTf, cwd, procs, phase, processes, scoreDir, rendered, hcl, called, budget>>

\* the event-stream headers, process.chdir(envDir), runCommandWithStream(...)
StreamReuse(op, sid, ok) ==
    /\ Len(procs) < budget.procs
    /\ reply' = 200
    /\ cwd' = sid
    /\ procs' = IF \E i \in DOMAIN procs : procs[i].sid = sid /\ Running(procs[i])
                THEN procs
                ELSE Append(procs, NewProc(sid, op, ok))
    /\ phase' = [phase EXCEPT ![sid] = PhaseDuring(op)]
    /\ body' = NoBody
    /\ UNCHANGED <<processes, scoreDir, rendered, hcl, called, budget>>

Stream(op, sid, ok) ==
    /\ Len(procs) < budget.procs
    /\ reply' = 200
    /\ cwd' = sid
    /\ procs' = Append(procs, NewProc(sid, op, ok))
    /\ phase' = [phase EXCEPT ![sid] = PhaseDuring(op)]
    /\ body' = NoBody
    /\ UNCHANGED <<processes, scoreDir, rendered, hcl, called, budget>>

\* ------------------------------------------------------------- endpoints
\* const mainTf = `...`: the template of the init handler, with its
\* interpolations of the region query parameter
MainTf(region) == <<"provider", region, "vpc", "azs", region, "eks">>

\* fs.writeFileSync(path.join(envDir, 'main.tf'), mainTf): the file after
\* the write, whatever it held before
WriteMainTf(old, text) == <<text>>

\* app.get('/api/terraform/init')
TerraformInit(sid, region, ok) ==
    /\ ~TickPending
    /\ IF InitInvalid(sid, region)
       THEN Reject
       ELSE /\ fsDirs' = fsDirs \cup {sid}
            /\ fsFiles' = [fsFiles EXCEPT ![sid] = @ \cup {"main.tf"}]
            /\ mainTf' = [mainTf EXCEPT ![sid] = WriteMainTf(@, MainTf(region))]
            /\ Stream("init", sid, ok)

\* the shared shape of plan, apply and destroy
Lifecycle(op, sid, ok) ==
    /\ ~TickPending
    /\ IF SessionMissing(sid) \/ DirMissing(sid)
       THEN Reject
       ELSE /\ UNCHANGED <<fsDirs, fsFiles, mainTf>>
            /\ Stream(op, sid, ok)

\* app.get('/api/terraform/plan')
TerraformPlan(sid, ok) == Lifecycle("plan", sid, ok)

\* app.get('/api/terraform/apply')
TerraformApply(sid, ok) == Lifecycle("apply", sid, ok)

\* app.get('/api/terraform/destroy')
TerraformDestroy(sid, ok) == Lifecycle("destroy", sid, ok)

\* --------------------------------------------------------------- render
\* what a renderer returns or throws
Rendered(t) == [ok |-> TRUE, text |-> t, error |-> ""]

Thrown(e) == [ok |-> FALSE, text |-> <<>>, error |-> e]

\* ...(services.key && { key: { type, properties: { size: 'small' } } })
ServiceFragment(services, key, type) ==
    IF key \in services THEN <<key, type, "small">> ELSE <<>>

\* generateScoreYaml(config): JSON.stringify of the score object, as the
\* sequence of its keys and values; a key whose value is undefined is left
\* out by JSON.stringify
GenerateScoreYamlNumbered(d) ==
    IF d.name = "" \/ ~d.hasEnv \/ ~d.hasServices
    THEN Thrown("Failed to generate score configuration")
    ELSE Rendered(
           <<"apiVersion", "score.dev/v1b1", "name", d.name,
             "type", IF d.type = "" THEN "web" ELSE d.type,
             "executionEnvironment", "aws">>
           \o (IF d.region = NoRegion THEN <<>> ELSE <<"region", d.region>>)
           \o <<"services">>
           \o ServiceFragment(d.services, "database", "postgres")
           \o ServiceFragment(d.services, "cache", "redis")
           \o ServiceFragment(d.services, "queue", "rabbitmq")
           \o <<"generation", IF scoreDir.score = <<>> THEN "first" ELSE "later">>)

GenerateScoreYaml(d) ==
    IF d.name = "" \/ ~d.hasEnv \/ ~d.hasServices
    THEN Thrown("Failed to generate score configuration")
    ELSE Rendered(
           <<"apiVersion", "score.dev/v1b1", "name", d.name,
             "type", IF d.type = "" THEN "web" ELSE d.type,
             "executionEnvironment", "aws">>
           \o (IF d.region = NoRegion THEN <<>> ELSE <<"region", d.region>>)
           \o <<"services">>
           \o ServiceFragment(d.services, "database", "postgres")
           \o ServiceFragment(d.services, "cache", "redis")
           \o ServiceFragment(d.services, "queue", "rabbitmq"))

\* the services generateScoreYaml has a fragment for
KnownServices == {"database", "cache", "queue"}

\* ----------------------------------------------------------------- form
\* the service checkboxes of the application form
FormServices == {"database", "cache", "messageQueue"}

\* handleServiceToggle(service): the key of formData.services under which a
\* ticked checkbox is submitted
FormKey(box) == box

\* onSubmit(formData): the request body the form submits for a name, a
\* region of its menu and a set of ticked checkboxes; environment.type is
\* the form's 'api' and services is always an object
FormData(name, region, boxes) ==
    [name |-> name, hasEnv |-> TRUE, region |-> region, type |-> "api",
     hasServices |-> TRUE, services |-> {FormKey(b) : b \in boxes}]

\* the score object rendered for d, as generateTerraformConfig is handed it:
\* scoreConfig.metadata.name, scoreConfig.spec.environment.region and the
\* keys of scoreConfig.spec.services
TerraformInput(d) ==
    [name |-> d.name, region |-> d.region,
     services |-> d.services \cap KnownServices]

\* generateTerraformConfig(scoreConfig): the template with its
\* interpolations of region and metadata.name.  `services` is taken out of
\* scoreConfig.spec and never read: the database resources (subnet group,
\* security group, instance) are in the text whatever the services are,
\* and there is no resource for a cache or a queue.
GenerateTerraformConfig(c) ==
    Rendered(<<"provider", c.region, "vpc", c.name, "azs", c.region,
               "eks", c.name, "aws_db_subnet_group", c.name,
               "aws_security_group", c.name, "aws_db_instance", c.name>>)

\* if (!config.name)
NameMissing(d) == d.name = ""

\* if (!config.environment || !config.environment.region)
RegionMissing(d) == ~d.hasEnv \/ d.region = NoRegion

\* { scoreFile, message }
GeneratedBody(t) == [NoBody EXCEPT !.kind = "generated", !.text = t]

\* the history keeps the render it holds, noting that its request came
\* again, or takes the new one
Again(h, d) ==
    IF h # <<>> /\ h[1].desc = d THEN <<[h[1] EXCEPT !.again = TRUE]>> ELSE h

Remember(h, d, t) == {Again(h, d), <<[desc |-> d, text |-> t, again |-> FALSE]>>}

\* answer with an error and leave the files alone
FailAfterMkdir(status, e) ==
    /\ reply' = status
    /\ body' = ErrorBody(e)
    /\ scoreDir' = [scoreDir EXCEPT !.exists = TRUE]
    /\ UNCHANGED rendered

Fail(status, e) ==
    /\ reply' = status
    /\ body' = ErrorBody(e)
    /\ UNCHANGED <<scoreDir, rendered>>

\* app.post('/api/generate')
Generate(d) ==
    /\ ~TickPending
    /\ IF NameMissing(d) THEN Fail(400, "Application name is required")
       ELSE IF RegionMissing(d) THEN Fail(400, "AWS region is required")
       ELSE LET r == GenerateScoreYaml(d)
            IN  IF ~r.ok THEN Fail(500, r.error)
                ELSE /\ scoreDir' = [exists |-> TRUE, score |-> <<r.text>>]
                     /\ reply' = 200
                     /\ body' = GeneratedBody(r.text)
                     /\ rendered' \in Remember(rendered, d, r.text)
    /\ UNCHANGED <<fsDirs, fsFiles, mainTf, cwd, procs, phase, processes, hcl, called, budget>>

\* generateTerraformConfig applied to a score object
RenderTerraform(c) ==
    /\ ~TickPending
    /\ hcl' = <<[desc |-> c,
                 text |-> GenerateTerraformConfig(c).text,
                 again |-> hcl # <<>> /\ hcl[1].desc = c]>>
    /\ UNCHANGED <<fsDirs, fsFiles, mainTf, cwd, procs, phase, reply, body, processes,
                   scoreDir, rendered, called, ui, budget>>

\* ------------------------------------------------------------- lookups
\* const envDir = path.join(__dirname, 'environments', 'dev'): the directory
\* the score lookup for session sid consults
ScoreDir(sid) == "dev"

\* fs.readFileSync(scoreFilePath, 'utf8'): the text of a file the model
\* knows by name only
FileText(dir, name) == <<dir, name>>

\* app.get('/api/score/:sessionId')
ScoreLookup(sid) ==
    /\ ~TickPending
    /\ IF "score.yaml" \notin fsFiles[ScoreDir(sid)]
       THEN reply' = 404 /\ body' = ErrorBody("Score file not found")
       ELSE reply' = 200 /\ body' = ScoreBody(FileText(ScoreDir(sid), "score.yaml"))
    /\ UNCHANGED <<fsDirs, fsFiles, mainTf, cwd, procs, phase, processes, scoreDir, rendered, hcl, called, ui, budget>>

\* processes.get(sessionId): the Map after the lookup
AfterGetOrCreate(sid) ==
    IF sid \in DOMAIN processes THEN processes
    ELSE processes @@ (sid :> [status |-> "idle", logs |-> <<>>])

AfterGet(sid) == processes

\* app.get('/api/status/:sessionId')
StatusQuery(sid) ==
    /\ ~TickPending
    /\ IF sid \notin DOMAIN processes
       THEN reply' = 404 /\ body' = ErrorBody("Session not found")
       ELSE reply' = 200 /\ body' = StatusBody(processes[sid])
    /\ processes' = AfterGet(sid)
    /\ UNCHANGED <<fsDirs, fsFiles, mainTf, cwd, procs, phase, scoreDir, rendered, hcl, called, ui, budget>>

\* app.get('/api/health'): the probe reads nothing of the service's state
HealthIfNoFailure ==
    /\ ~TickPending
    /\ IF \E sid \in Sessions : phase[sid] = "error"
       THEN reply' = 500 /\ body' = ErrorBody("unhealthy")
       ELSE reply' = 200 /\ body' = HealthBody
    /\ UNCHANGED <<fsDirs, fsFiles, mainTf, cwd, procs, phase, processes, scoreDir,
                   rendered, hcl, called, ui, budget>>

Health ==
    /\ ~TickPending
    /\ reply' = 200
    /\ body' = HealthBody
    /\ UNCHANGED <<fsDirs, fsFiles, mainTf, cwd, procs, phase, processes, scoreDir,
                   rendered, hcl, called, ui, budget>>

\* ------------------------------------------------------- child callbacks
\* process.stdout.on('data', ...)
StdoutDataLate(i) ==
    /\ ~TickPending
    /\ procs[i].child \in {"running", "errored"}
    /\ CanDrain(procs[i])
    /\ TotalChunks < budget.chunks
    /\ procs' = [procs EXCEPT ![i] = OnStdout(@, NextText)]
    /\ UNCHANGED <<fsDirs, fsFiles, mainTf, cwd, phase, reply, body, processes, scoreDir, rendered, hcl, called, ui, budget>>

StdoutData(i) ==
    /\ ~TickPending
    /\ procs[i].child = "running"
    /\ CanDrain(procs[i])
    /\ TotalChunks < budget.chunks
    /\ procs' = [procs EXCEPT ![i] = OnStdout(@, NextText)]
    /\ UNCHANGED <<fsDirs, fsFiles, mainTf, cwd, phase, reply, body, processes, scoreDir, rendered, hcl, called, ui, budget>>

\* process.stderr.on('data', ...); `let error = ''` belongs to the invocation
StderrDataShared(i) ==
    /\ ~TickPending
    /\ procs[i].child = "running"
    /\ CanDrain(procs[i])
    /\ TotalChunks < budget.chunks
    /\ procs' = [j \in DOMAIN procs |->
                    IF j = i THEN OnStderr(procs[j], NextText)
                    ELSE [procs[j] EXCEPT !.error = Append(@, NextText)]]
    /\ UNCHANGED <<fsDirs, fsFiles, mainTf, cwd, phase, reply, body, processes, scoreDir, rendered, hcl, called, ui, budget>>

StderrData(i) ==
    /\ ~TickPending
    /\ procs[i].child = "running"
    /\ CanDrain(procs[i])
    /\ TotalChunks < budget.chunks
    /\ procs' = [procs EXCEPT ![i] = OnStderr(@, NextText)]
    /\ UNCHANGED <<fsDirs, fsFiles, mainTf, cwd, phase, reply, body, processes, scoreDir, rendered, hcl, called, ui, budget>>

\* resolve / reject, and what the settled promise runs: the handler's then
\* or catch, as microtasks of the same callback
Settled(p, outcome, reason) ==
    IF CanSettle(p)
    THEN OnSettled([p EXCEPT !.promise = outcome, !.reason = reason])
    ELSE p

\* the tool's own effect on the directory it runs in when it exits (files
\* outside the session directories are not followed)
ToolFiles(p, code) ==
    IF p.op = "plan" /\ code = 0 THEN {"tfplan"} ELSE {}

\* process.on('close', (code) => ...); after a failed spawn 'close' follows
\* the 'error' event with a negative code
ChildClose(i, code) ==
    LET p == procs[i]
        q == [p EXCEPT !.child = "closed", !.exit = <<code>>]
    IN  /\ ~TickPending
        /\ \/ p.child = "running" /\ CanDrain(p) /\ code \in ExitCodes
           \/ p.child = "errored" /\ code \in SpawnErrno
        /\ procs' = [procs EXCEPT ![i] =
                        Settled(q, CloseOutcome(q, code), RejectReason(q.error, code))]
        /\ phase' = IF CanSettle(p)
                    THEN [phase EXCEPT ![p.sid] = PhaseSettled(procs'[i])]
                    ELSE phase
        /\ fsFiles' = IF p.dir \in DOMAIN fsFiles
                      THEN [fsFiles EXCEPT ![p.dir] = @ \cup ToolFiles(p, code)]
                      ELSE fsFiles
        /\ UNCHANGED mainTf
        /\ UNCHANGED <<fsDirs, cwd, reply, body, processes, scoreDir, rendered, hcl, called, ui, budget>>

\* process.on('error', (err) => ...): the tool could not be spawned
ChildError(i) ==
    LET p == procs[i]
        q == [p EXCEPT !.child = "errored"]
    IN  /\ p.child = "spawnfail"
        /\ procs' = [procs EXCEPT ![i] = Settled(q, "rejected", SpawnError)]
        /\ phase' = IF CanSettle(p)
                    THEN [phase EXCEPT ![p.sid] = PhaseSettled(procs'[i])]
                    ELSE phase
        /\ UNCHANGED <<fsDirs, fsFiles, mainTf, cwd, reply, body, processes, scoreDir, rendered, hcl, called, ui, budget>>

\* ------------------------------------------------------------ subscriber
\* The subscriber of a feed is the environment: it may stop reading, resume,
\* or close the connection before the response has ended.  The server has
\* no listener for any of these (no req.on('close'), no 'drain'), so only
\* the subscriber's own state changes.
SubscriberMove(i, from, to) ==
    /\ budget.client
    /\ ~TickPending
    /\ ~procs[i].ended
    /\ procs[i].sub \in from
    /\ procs' = [procs EXCEPT ![i].sub = to]
    /\ UNCHANGED <<fsDirs, fsFiles, mainTf, cwd, phase, reply, body, processes, scoreDir, rendered, hcl, called, ui, budget>>

SubscriberStall(i) == SubscriberMove(i, {"reading"}, "stalled")

SubscriberResume(i) == SubscriberMove(i, {"stalled"}, "reading")

SubscriberClose(i) == SubscriberMove(i, {"reading", "stalled"}, "gone")

\* -------------------------------------------------------------- helpers
\* One run of the tool, as a helper function sees it: whether the tool wrote
\* output (out chunks) and how it ended (an exit code, or the errno of a
\* spawn that failed, which writes nothing).
MaxOut == 1

ToolRuns ==
    {t \in [out : 0..MaxOut, code : ExitCodes \cup SpawnErrno] :
        t.code \in SpawnErrno => t.out = 0}

\* what a call of a helper function comes to: the value it returns, or an
\* exception nobody catches
Returned(v) == [kind |-> "returned", value |-> v]

Uncaught(e) == [kind |-> "uncaught", value |-> e]

\* execa('terraform', ...): rejects on a non-zero exit and on a failed spawn
Execa(t) == IF t.code = 0 THEN "resolved" ELSE "rejected"

\* runTerraformCommand: try { await execa(...); return { success: true, ... } }
\* catch { return { success: false, ... } }
RunTerraformCommand(t) ==
    IF Execa(t) = "resolved" THEN Returned("success") ELSE Returned("failure")

\* initTerraform: try { await runTerraformCommand(...); return { success: true } }
\* catch { return { success: false, ... } }
InitTerraform(t) ==
    IF RunTerraformCommand(t).kind = "returned"
    THEN Returned("success")
    ELSE Returned("failure")

\* planTerraform: try { const output = await runTerraformCommand(...);
\* return { success: true, output } } catch { return { success: false, ... } }
PlanTerraform(t) ==
    IF RunTerraformCommand(t).kind = "returned"
    THEN Returned("success")
    ELSE Returned("failure")

\* applyTerraform, of the same shape
ApplyTerraform(t) ==
    IF RunTerraformCommand(t).kind = "returned"
    THEN Returned("success")
    ELSE Returned("failure")

\* runCommandWithStream(command, args, cwd, null): the 'data' listeners call
\* res.write on null, a TypeError thrown inside an event listener, which no
\* one catches; without output the promise settles by the exit code, and
\* resolve() carries no value
RunCommandNoRes(t) ==
    IF t.out > 0 THEN "uncaught"
    ELSE IF t.code = 0 THEN "resolved" ELSE "rejected"

\* checkTerraformState: try { await runCommandWithStream(...); return true }
\* catch { return false }
CheckTerraformState(t) ==
    CASE RunCommandNoRes(t) = "uncaught" -> Uncaught("TypeError")
      [] RunCommandNoRes(t) = "resolved" -> Returned("true")
      [] RunCommandNoRes(t) = "rejected" -> Returned("false")

\* JSON.parse(output) of what the supervisor resolved with: resolve() gives
\* undefined, and JSON.parse(undefined) throws a SyntaxError
JsonParse(v) == IF v = "undefined" THEN "threw" ELSE "parsed"

\* getTerraformOutput: the default object without state or on any caught
\* error, JSON.parse of the supervisor's value otherwise; t: the run of
\* `terraform state list`, u: the run of `terraform output -json`
GetTerraformOutput(t, u) ==
    IF CheckTerraformState(t).kind = "uncaught" THEN Uncaught("TypeError")
    ELSE IF CheckTerraformState(t).value = "false" THEN Returned("default")
    ELSE CASE RunCommandNoRes(u) = "uncaught" -> Uncaught("TypeError")
           [] RunCommandNoRes(u) = "rejected" -> Returned("default")
           [] RunCommandNoRes(u) = "resolved" ->
                IF JsonParse("undefined") = "threw"
                THEN Returned("default")
                ELSE Returned("parsed")

HelperFns ==
    {"initTerraform", "planTerraform", "applyTerraform", "checkTerraformState",
     "getTerraformOutput"}

\* the calls of the helper functions: `then` is the second run of
\* getTerraformOutput
Calls ==
    {c \in [fn : HelperFns, run : ToolRuns, then : ToolRuns] :
        c.fn # "getTerraformOutput" => c.then = c.run}

Apply(c) ==
    CASE c.fn = "initTerraform" -> InitTerraform(c.run)
      [] c.fn = "planTerraform" -> PlanTerraform(c.run)
      [] c.fn = "applyTerraform" -> ApplyTerraform(c.run)
      [] c.fn = "checkTerraformState" -> CheckTerraformState(c.run)
      [] c.fn = "getTerraformOutput" -> GetTerraformOutput(c.run, c.then)

\* a helper function is called and what it comes to is kept
Call(c) ==
    /\ ~TickPending
    /\ called' = <<[call |-> c, result |-> Apply(c)]>>
    /\ UNCHANGED <<fsDirs, fsFiles, mainTf, cwd, procs, phase, reply, body, processes,
                   scoreDir, rendered, hcl, ui, budget>>

\* --------------------------------------------------------------- client
\* const isProcessing = status === 'initializing' || ... || 'processing'
IsProcessing(status) ==
    status \in {"initializing", "planning", "applying", "destroying", "processing"}

\* const canPlan = status === 'idle' || status === 'completed'
CanPlan(status) == status \in {"idle", "completed"}

\* const canApply = status === 'completed'
CanApply(status) == status = "completed"

\* the buttons: disabled={isProcessing}, disabled={isProcessing || !canPlan},
\* disabled={isProcessing || !canApply}
InitEnabled(status) == ~IsProcessing(status)

PlanEnabled(status) == ~(IsProcessing(status) \/ ~CanPlan(status))

ApplyEnabled(status) == ~(IsProcessing(status) \/ ~CanApply(status))

DestroyEnabledAlways(status) == TRUE

DestroyEnabled(status) == ~IsProcessing(status)

CancelEnabled(status) == ~IsProcessing(status)

ButtonEnabled(op, status) ==
    CASE op = "init" -> InitEnabled(status)
      [] op = "plan" -> PlanEnabled(status)
      [] op = "apply" -> ApplyEnabled(status)
      [] op = "destroy" -> DestroyEnabled(status)

\* setTerraformStatus('initializing' | 'planning' | 'applying' | 'destroying')
ClickStatus(op) ==
    CASE op = "init" -> "initializing"
      [] op = "plan" -> "planning"
      [] op = "apply" -> "applying"
      [] op = "destroy" -> "destroying"

\* sessionId (Date.now().toString(), set once when App mounts) and
\* config.environment.region of the submitted form
UiSession == "s1"

UiRegion == "eu-west-1"

\* const [terraformStatus, ...] = useState('idle') etc.; no EventSource
UiStart ==
    [panel |-> FALSE, status |-> "idle", logs |-> <<>>, error |-> "",
     srcs |-> <<>>, last |-> <<>>]

\* new EventSource(url): its request is on its way to the server
NewSource(op) == [op |-> op, state |-> "connecting", proc |-> 0, seen |-> 0]

\* the sequence without its k-th element
Without(seq, k) == SubSeq(seq, 1, k - 1) \o SubSeq(seq, k + 1, Len(seq))

\* eventSource.close(), with how it came to be closed kept as history
CloseSource(u, k, why) ==
    [u EXCEPT !.srcs = Without(@, k),
              !.last = <<[op |-> u.srcs[k].op, proc |-> u.srcs[k].proc,
                          seen |-> u.srcs[k].seen, why |-> why]>>]

\* handleSubmit of a valid form: POST /api/generate, and on its 200 answer
\* setScoreFile / setConfig, which shows the terraform panel
UiSubmit(boxes) ==
    /\ budget.ui
    /\ ~ui.panel
    /\ Generate(FormData("orders", UiRegion, boxes))
    /\ ui' = [ui EXCEPT !.panel = (reply' = 200)]

\* handleTerraformInit / Plan / Apply / Destroy: the click on an enabled
\* button
UiClick(op) ==
    /\ budget.ui
    /\ ui.panel
    /\ ButtonEnabled(op, ui.status)
    /\ ui' = [ui EXCEPT !.status = ClickStatus(op), !.error = "", !.logs = <<>>,
                        !.srcs = Append(@, NewSource(op))]
    /\ UNCHANGED <<fsDirs, fsFiles, mainTf, cwd, procs, phase, reply, body, processes,
                   scoreDir, rendered, hcl, called, budget>>

\* the request of an EventSource reaches the server and its handler runs;
\* an event stream opens the source, a 400 answer refuses it
UiRequest(k, ok) ==
    /\ ui.srcs[k].state = "connecting"
    /\ IF ui.srcs[k].op = "init"
       THEN TerraformInit(UiSession, UiRegion, ok)
       ELSE Lifecycle(ui.srcs[k].op, UiSession, ok)
    /\ ui' = [ui EXCEPT !.srcs[k] =
                 IF reply' = 200
                 THEN [@ EXCEPT !.state = "open", !.proc = Len(procs')]
                 ELSE [@ EXCEPT !.state = "refused"]]

\* eventSource.onmessage: the next message of the feed is delivered
UiMessageKeepOpen(k) ==
    LET src == ui.srcs[k]
        ev == procs[src.proc].feed[src.seen + 1]
        u == [ui EXCEPT !.srcs[k].seen = @ + 1]
    IN  /\ src.state = "open"
        /\ src.seen < Len(procs[src.proc].feed)
        /\ ui' = CASE ev.kind = "error" ->
                        CloseSource([u EXCEPT !.error = "message", !.status = "error"],
                                    k, "error")
                  [] ev.kind = "log" ->
                        [u EXCEPT !.logs = Append(@, ev.msg.text[1])]
                  [] ev.kind = "status" ->
                        [u EXCEPT !.status = "completed"]
        /\ UNCHANGED <<fsDirs, fsFiles, mainTf, cwd, procs, phase, reply, body, processes,
                       scoreDir, rendered, hcl, called, budget>>

UiMessage(k) ==
    LET src == ui.srcs[k]
        ev == procs[src.proc].feed[src.seen + 1]
        u == [ui EXCEPT !.srcs[k].seen = @ + 1]
    IN  /\ src.state = "open"
        /\ src.seen < Len(procs[src.proc].feed)
        /\ ui' = CASE ev.kind = "error" ->
                        CloseSource([u EXCEPT !.error = "message", !.status = "error"],
                                    k, "error")
                  [] ev.kind = "log" ->
                        [u EXCEPT !.logs = Append(@, ev.msg.text[1])]
                  [] ev.kind = "status" ->
                        CloseSource([u EXCEPT !.status = "completed"], k, "completed")
        /\ UNCHANGED <<fsDirs, fsFiles, mainTf, cwd, procs, phase, reply, body, processes,
                       scoreDir, rendered, hcl, called, budget>>

\* eventSource.onerror: the request was refused, or the connection was lost
\* or ended
UiError(k) ==
    /\ ui.srcs[k].state \in {"refused", "open"}
    /\ ui' = CloseSource([ui EXCEPT !.error = "Connection to server lost",
                                    !.status = "error"], k, "onerror")
    /\ UNCHANGED <<fsDirs, fsFiles, mainTf, cwd, procs, phase, reply, body, processes,
                   scoreDir, rendered, hcl, called, budget>>

\* handleCancel
UiCancel ==
    /\ budget.ui
    /\ ui.panel
    /\ CancelEnabled(ui.status)
    /\ ui' = [ui EXCEPT !.panel = FALSE, !.status = "idle", !.logs = <<>>,
                        !.error = ""]
    /\ UNCHANGED <<fsDirs, fsFiles, mainTf, cwd, procs, phase, reply, body, processes,
                   scoreDir, rendered, hcl, called, budget>>

\* a request that does not come from this client
Direct(Handler) == Handler /\ UNCHANGED ui

\* ---------------------------------------------------------- specification
Start ==
    /\ fsDirs = {}
    /\ fsFiles = [s \in Sessions |-> {}]
    /\ mainTf = [s \in Sessions |-> <<>>]
    /\ cwd = RootDir
    /\ procs = <<>>
    /\ phase = [s \in Sessions |-> "idle"]
    /\ reply = 0
    /\ body = NoBody
    /\ processes = <<>>
    /\ rendered = <<>>
    /\ hcl = <<>>
    /\ called = <<>>
    /\ ui = UiStart

\* client: whether the run follows what the subscribers do; descs: the
\* render requests it makes; objs: the requests to whose score objects it
\* applies generateTerraformConfig
LifeBudget ==
    [procs |-> MaxProcs, chunks |-> 0, sessions |-> OneSession, client |-> FALSE,
     regions |-> OneRegion, descs |-> {}, objs |-> {}, calls |-> {}, ui |-> FALSE]

SupBudget ==
    [procs |-> 1, chunks |-> MaxChunks, sessions |-> OneSession, client |-> TRUE,
     regions |-> OneRegion, descs |-> {}, objs |-> {}, calls |-> {}, ui |-> FALSE]

IsoBudget ==
    [procs |-> 2, chunks |-> MaxIsoChunks, sessions |-> Sessions, client |-> FALSE,
     regions |-> OneRegion, descs |-> {}, objs |-> {}, calls |-> {}, ui |-> FALSE]

\* two inits of one session, for either region
ReinitBudget ==
    [procs |-> 2, chunks |-> 0, sessions |-> OneSession, client |-> FALSE,
     regions |-> Regions, descs |-> {}, objs |-> {}, calls |-> {}, ui |-> FALSE]

\* one invocation with output on both streams, its subscriber, and two
\* render requests
LiveBudget ==
    [procs |-> 1, chunks |-> 2, sessions |-> OneSession, client |-> TRUE,
     regions |-> OneRegion, descs |-> FewDescriptors, objs |-> FewDescriptors,
     calls |-> {}, ui |-> FALSE]

\* the render requests, with no invocation
GenBudget ==
    [procs |-> 0, chunks |-> 0, sessions |-> OneSession, client |-> FALSE,
     regions |-> OneRegion, descs |-> Descriptors, objs |-> {}, calls |-> {}, ui |-> FALSE]

\* generateTerraformConfig over the score objects of all the requests
TfBudget ==
    [procs |-> 0, chunks |-> 0, sessions |-> OneSession, client |-> FALSE,
     regions |-> OneRegion, descs |-> {}, objs |-> Descriptors, calls |-> {}, ui |-> FALSE]

\* the browser client: its form, its buttons and its event sources, next to
\* requests that come from elsewhere
UiBudget ==
    [procs |-> 1, chunks |-> 1, sessions |-> OneSession, client |-> FALSE,
     regions |-> OneRegion, descs |-> {}, objs |-> {}, calls |-> {}, ui |-> TRUE]

\* the helper functions over all the runs of the tool, with no invocation
HelperBudget ==
    [procs |-> 0, chunks |-> 0, sessions |-> OneSession, client |-> FALSE,
     regions |-> OneRegion, descs |-> {}, objs |-> {}, calls |-> Calls, ui |-> FALSE]

\* the directory server/environment may be there already
ScoreDirs(b) ==
    {[exists |-> e, score |-> <<>>] : e \in IF b.descs = {} THEN {TRUE} ELSE BOOLEAN}

Init ==
    /\ Start
    /\ budget \in {LifeBudget, SupBudget, IsoBudget, ReinitBudget, LiveBudget,
                   HelperBudget, UiBudget}
    /\ scoreDir \in ScoreDirs(budget)

Next ==
    \/ \E sid \in SessionInputs, region \in budget.regions \cup {NoRegion},
          ok \in BOOLEAN :
          Direct(TerraformInit(sid, region, ok))
    \/ \E sid \in SessionInputs, ok \in BOOLEAN : Direct(TerraformPlan(sid, ok))
    \/ \E sid \in SessionInputs, ok \in BOOLEAN : Direct(TerraformApply(sid, ok))
    \/ \E sid \in SessionInputs, ok \in BOOLEAN : Direct(TerraformDestroy(sid, ok))
    \/ \E d \in budget.descs : Direct(Generate(d))
    \/ \E d \in budget.objs :
          /\ GenerateScoreYaml(d).ok /\ ~RegionMissing(d)
          /\ RenderTerraform(TerraformInput(d))
    \/ \E sid \in budget.sessions : ScoreLookup(sid)
    \/ \E sid \in budget.sessions : StatusQuery(sid)
    \/ Health
    \/ \E c \in budget.calls : Call(c)
    \/ \E boxes \in {{"database"}} : UiSubmit(boxes)
    \/ \E op \in Ops : UiClick(op)
    \/ \E k \in DOMAIN ui.srcs, ok \in BOOLEAN : UiRequest(k, ok)
    \/ \E k \in DOMAIN ui.srcs : UiMessage(k)
    \/ \E k \in DOMAIN ui.srcs : UiError(k)
    \/ UiCancel
    \/ \E i \in DOMAIN procs : StdoutData(i)
    \/ \E i \in DOMAIN procs : StderrData(i)
    \/ \E i \in DOMAIN procs, code \in ExitCodes \cup SpawnErrno : ChildClose(i, code)
    \/ \E i \in DOMAIN procs : ChildError(i)
    \/ \E i \in DOMAIN procs : SubscriberStall(i)
    \/ \E i \in DOMAIN procs : SubscriberResume(i)
    \/ \E i \in DOMAIN procs : SubscriberClose(i)

Spec == Init /\ [][Next]_vars

\* One invocation, its output on both streams and its subscriber, with the
\* scheduling the runtime gives: a child that was spawned ends on its own,
\* and node delivers its 'error' and 'close' events.
InitLive ==
    /\ Start
    /\ budget \in {LiveBudget, HelperBudget, UiBudget}
    /\ scoreDir \in ScoreDirs(budget)

ChildExit ==
    \E i \in DOMAIN procs :
        \/ ChildError(i)
        \/ \E code \in ExitCodes \cup SpawnErrno : ChildClose(i, code)

SpecLive == InitLive /\ [][Next]_vars /\ WF_vars(ChildExit)

\* The renderers and the render endpoint over all the requests, next to the
\* run in which render requests and one invocation interleave.
InitRender ==
    /\ Start
    /\ budget \in {GenBudget, TfBudget, LiveBudget, HelperBudget, UiBudget}
    /\ scoreDir \in ScoreDirs(budget)

SpecRender == InitRender /\ [][Next]_vars

TypeOK ==
    /\ fsDirs \subseteq budget.sessions
    /\ Len(procs) <= budget.procs
    /\ TotalChunks <= budget.chunks
    /\ reply \in {0, 200, 400, 404, 500}
    /\ DOMAIN processes \subseteq Sessions

\* ------------------------------------------------------- feed vocabulary
Procs == {procs[i] : i \in DOMAIN procs}

IsTerminal(ev) == ev.kind \in {"error", "status"}

IsLog(ev) == ev.kind = "log"

TerminalCount(p) == Len(SelectSeq(p.feed, IsTerminal))

\* the texts of the log events of a feed, in feed order
LogTexts(p) ==
    LET logs == SelectSeq(p.feed, IsLog)
    IN  [k \in 1..Len(logs) |-> logs[k].msg.text[1]]

\* the texts the child emitted, in arrival order
ArrivedTexts(p) == [k \in 1..Len(p.arrived) |-> p.arrived[k].text]

IsStderr(c) == c.stream = "stderr"

\* the texts the child emitted on standard error, in arrival order
StderrTexts(p) ==
    LET errs == SelectSeq(p.arrived, IsStderr)
    IN  [k \in 1..Len(errs) |-> errs[k].text]

\* the child ran and has exited with the code c
Exited(p, c) == p.child = "closed" /\ p.exit = <<c>>

\* the child ran and has exited with a non-zero code
ExitedNonZero(p) == \E c \in ExitCodes \ {0} : Exited(p, c)

\* the child could not be spawned
SpawnFailed(p) ==
    \/ p.child = "errored"
    \/ \E c \in SpawnErrno : Exited(p, c)

\* ----------------------------------------------------------------- C1
\* C1: a feed never holds more than one terminal event; once the child has
\* exited or failed to spawn the feed is ended and holds exactly one
\* terminal event, which is its last message; an ended feed holds one.
C1_OneTerminalEvent ==
    \A p \in Procs :
        /\ TerminalCount(p) <= 1
        /\ (p.child \in {"errored", "closed"}) => p.ended
        /\ p.ended <=> TerminalCount(p) = 1
        /\ p.ended => IsTerminal(p.feed[Len(p.feed)])

\* one child has exited with 0 and one failed to spawn, its 'error' followed
\* by 'close': each feed holds its one terminal event
C1_Witness ==
    /\ \E p \in Procs : Exited(p, 0) /\ TerminalCount(p) = 1
    /\ \E p \in Procs : p.child = "closed" /\ SpawnFailed(p) /\ TerminalCount(p) = 1

\* ----------------------------------------------------------------- C2
\* C2: the log events of a feed are the chunks the child emitted on both
\* streams, in arrival order, none dropped, duplicated or reordered.
C2_LogOrder == \A p \in Procs : LogTexts(p) = ArrivedTexts(p)

\* A on stdout, B on stderr, C on stdout have arrived and were delivered
C2_Witness ==
    \E p \in Procs :
        /\ p.arrived = <<[stream |-> "stdout", text |-> "A"],
                         [stream |-> "stderr", text |-> "B"],
                         [stream |-> "stdout", text |-> "C"]>>
        /\ LogTexts(p) = <<"A", "B", "C">>
        /\ p.ended

\* ----------------------------------------------------------------- C3
\* C3: the promise resolves exactly when the child exits with code 0; a
\* non-zero exit and a failed spawn reject; the terminal event is the
\* completed status exactly when the exit code is 0.
C3_ResolveIffZero ==
    \A p \in Procs :
        /\ p.promise = "resolved" <=> Exited(p, 0)
        /\ (ExitedNonZero(p) \/ SpawnFailed(p)) => p.promise = "rejected"
        /\ p.ended => (p.feed[Len(p.feed)].kind = "status" <=> Exited(p, 0))

\* a child wrote to stderr and exited 0, and the feed ended with completed
C3_Witness ==
    \E p \in Procs :
        /\ Exited(p, 0)
        /\ StderrTexts(p) # <<>>
        /\ p.promise = "resolved"
        /\ p.feed[Len(p.feed)] = CompletedEvent

\* ----------------------------------------------------------------- C4
\* C4 as stated: after a non-zero exit the error carries both the exit code
\* and the concatenated stderr text.
C4_Original ==
    \A p \in Procs :
        ExitedNonZero(p) =>
            /\ p.reason.codes = {p.exit[1]}
            /\ p.reason.text = StderrTexts(p)

\* C4 amended: after a non-zero exit the error carries the concatenation,
\* in arrival order, of the stderr text when any was received, and then no
\* exit code; it carries the exit code only when no stderr text was received.
C4_StderrOrCode ==
    \A p \in Procs :
        ExitedNonZero(p) =>
            /\ p.promise = "rejected"
            /\ p.reason.text = StderrTexts(p)
            /\ p.reason.codes = IF StderrTexts(p) = <<>> THEN {p.exit[1]} ELSE {}
            /\ p.feed[Len(p.feed)] = ErrorEvent(p.reason)

\* a child wrote twice to stderr, with stdout in between, and exited non-zero
C4_Witness ==
    \E p \in Procs :
        /\ ExitedNonZero(p)
        /\ Len(StderrTexts(p)) = 2
        /\ Len(p.arrived) = 3
        /\ p.arrived[2].stream = "stdout"
        /\ p.reason.text = StderrTexts(p)

\* --------------------------------------------------- request vocabulary
\* this step answered the request with an event stream of a new invocation
Accepted(op, sid) ==
    /\ reply' = 200
    /\ Len(procs') = Len(procs) + 1
    /\ procs'[Len(procs')].op = op
    /\ procs'[Len(procs')].sid = sid

\* this step answered the request with an error and did nothing else
RejectedClean == reply' = 400 /\ UNCHANGED <<fsDirs, fsFiles, cwd, procs>>

\* ----------------------------------------------------------------- C5
\* C5 as stated: apply starts a process only if a plan has completed for the
\* session and the plan artifact is in its working directory.
C5_ApplyNeedsPlan ==
    [][\A sid \in Sessions, ok \in BOOLEAN :
          (TerraformApply(sid, ok) /\ Accepted("apply", sid)) =>
              (phase[sid] = "planned" /\ "tfplan" \in fsFiles[sid])]_vars

\* ----------------------------------------------------------------- C6
\* C6 as stated: plan starts a process only from initialized, applied or
\* planned.
C6_PlanNeedsInit ==
    [][\A sid \in Sessions, ok \in BOOLEAN :
          (TerraformPlan(sid, ok) /\ Accepted("plan", sid)) =>
              phase[sid] \in {"initialized", "applied", "planned"}]_vars

\* ----------------------------------------------------------------- C7
\* C7 as stated: init starts a process only from idle or error.
C7_InitOnlyFromIdle ==
    [][\A sid \in Sessions, region \in Regions, ok \in BOOLEAN :
          (TerraformInit(sid, region, ok) /\ Accepted("init", sid)) =>
              phase[sid] \in {"idle", "error"}]_vars

\* ----------------------------------------------------------------- C8
\* C8: a destroy request is accepted, whatever the session's lifecycle
\* position, when the session's working directory exists, and is rejected
\* without spawning when it does not.
C8_DestroyWheneverDir ==
    [][\A sid \in SessionInputs, ok \in BOOLEAN :
          \/ IF sid \in fsDirs
             THEN Accepted("destroy", sid)
             ELSE reply' = 400 /\ procs' = procs
          \/ ~TerraformDestroy(sid, ok)]_vars

\* destroy was accepted while the session's init was still in flight
C8_Witness ==
    \E p \in Procs : p.op = "destroy" /\ p.from = "initializing" /\ p.sid \in fsDirs

\* ----------------------------------------------------------------- C9
\* C9: a request without session id, an init without region, and a plan,
\* apply or destroy of a session without working directory are answered
\* with an error, and the step spawns nothing, opens no feed, creates no
\* directory and writes no file.
\* (Stated as: the step is a clean rejection, or it is none of these
\* requests.)
C9_RejectedIsClean ==
    [][\/ RejectedClean
       \/ /\ \A sid \in SessionInputs, region \in RegionInputs, ok \in BOOLEAN :
                ~((sid = NoSession \/ region = NoRegion)
                    /\ TerraformInit(sid, region, ok))
          /\ \A sid \in SessionInputs, ok \in BOOLEAN, op \in Ops \ {"init"} :
                ~((sid = NoSession \/ sid \notin fsDirs)
                    /\ Lifecycle(op, sid, ok))
          /\ ~(reply' = 400 /\ reply # 400)]_vars

\* a request was rejected and the server is still as it started
C9_Witness == reply = 400 /\ fsDirs = {} /\ procs = <<>> /\ cwd = RootDir

\* ---------------------------------------------------------------- C10
\* C10 as stated: at most one child process runs per session.
C10_OneChildPerSession ==
    \A s \in Sessions :
        Cardinality({i \in DOMAIN procs : procs[i].sid = s /\ Running(procs[i])}) <= 1

\* ------------------------------------------------------------ isolation
\* the step leaves the directories of the sessions other than sid alone
OthersUntouched(sid) ==
    /\ (fsDirs' \ fsDirs) \subseteq {EnvDir(sid)}
    /\ \A t \in Sessions \ {sid} : fsFiles'[t] = fsFiles[t]

\* C11: a working directory belongs to one session, and no operation on
\* behalf of a session reads or writes a file in the working directory of
\* another session: an accepted lifecycle operation for sid works in
\* sid's directory and leaves the others' alone, and a score lookup for
\* sid does not consult the working directory another session owns.
C11_OwnDirectoryOnly ==
    [][\A sid \in budget.sessions :
          /\ (\E op \in Ops : Accepted(op, sid))
                => cwd' = EnvDir(sid) /\ OthersUntouched(sid)
          /\ (ScoreDir(sid) \in fsDirs /\ ScoreLookup(sid))
                => ScoreDir(sid) = EnvDir(sid)]_vars

\* --------------------------------------------------------- session store
\* the lifecycle operations accepted so far for session sid
OpsOf(sid) == {p \in Procs : p.sid = sid}

\* the status query answers with the status st
Reports(st) == reply' = 200 /\ body'.kind = "status" /\ body'.status = st

\* C12: after a lifecycle operation of a session has failed, a status query
\* for the session reports the status error.
C12_FailureReported ==
    [][\A sid \in budget.sessions :
          (phase[sid] = "error" /\ StatusQuery(sid)) => Reports("error")]_vars

\* C13: the stored status of a session follows the lifecycle: the
\* in-progress state while an operation runs, the matching end state once
\* it has succeeded.
C13_StatusFollowsLifecycle ==
    \A sid \in Sessions :
        phase[sid] \in {PhaseDuring(op) : op \in Ops} \cup {PhaseAfter(op) : op \in Ops}
            => sid \in DOMAIN processes /\ processes[sid].status = phase[sid]

\* C14: once a lifecycle operation has been accepted for a session, a
\* status query for it succeeds and returns its status and logs.
C14_CreatedByFirstOperation ==
    [][\A sid \in budget.sessions :
          (OpsOf(sid) # {} /\ StatusQuery(sid))
              => reply' = 200 /\ body'.kind = "status"]_vars

\* C15: a status query for an identifier no lifecycle operation was accepted
\* for answers 404 'Session not found', creates no session and changes
\* nothing else.
C15_UnknownSessionNotFound ==
    [][\A sid \in budget.sessions :
          (OpsOf(sid) = {} /\ StatusQuery(sid))
              => /\ reply' = 404
                 /\ body' = ErrorBody("Session not found")
                 /\ DOMAIN processes' = DOMAIN processes
                 /\ UNCHANGED <<fsDirs, fsFiles, cwd, procs, phase>>]_vars

C15_Witness ==
    /\ reply = 404
    /\ body = ErrorBody("Session not found")
    /\ procs = <<>>
    /\ DOMAIN processes = {}

\* ----------------------------------------------------------- subscribers
\* the stored status of session sid is st
Stored(sid, st) == sid \in DOMAIN processes /\ processes[sid].status = st

\* C16: when the subscriber has disconnected while the operation ran, the
\* child is not terminated by the server (it ends with an exit code of its
\* own) and the result of the operation is recorded in the session store.
C16_ResultRecordedAfterDisconnect ==
    \A p \in Procs :
        (p.sub = "gone" /\ p.child = "closed")
            => /\ \E c \in ExitCodes \cup SpawnErrno : Exited(p, c)
               /\ phase[p.sid] = PhaseSettled(p) => Stored(p.sid, PhaseSettled(p))

Unfinished == \E p \in Procs : p.child # "closed"

AllFinished == \A p \in Procs : p.child = "closed" /\ p.promise # "pending"

\* C17: whatever the subscriber does (read, stall for ever, disconnect), a
\* spawned child reaches its exit and the supervisor's promise settles.
C17_ChildAlwaysFinishes == Unfinished ~> AllFinished

C17_Witness ==
    \E p \in Procs :
        /\ p.sub = "stalled"
        /\ Exited(p, 0)
        /\ p.promise = "resolved"
        /\ \E k \in DOMAIN p.arrived : p.arrived[k].stream = "stdout"
        /\ \E k \in DOMAIN p.arrived : p.arrived[k].stream = "stderr"

\* ------------------------------------------------------ concurrent inits
\* the invocations i and j are inits of two different sessions
TwoInits(i, j) ==
    /\ i # j
    /\ procs[i].op = "init" /\ procs[j].op = "init"
    /\ procs[i].sid # procs[j].sid

\* the feed of p holds no output of the child of q
NoOutputOf(p, q) ==
    \A k \in DOMAIN p.feed, n \in DOMAIN q.arrived :
        IsLog(p.feed[k]) => p.feed[k].msg.text[1] # q.arrived[n].text

\* the terminal event of p is the one its own child's end calls for
OwnTerminal(p) ==
    /\ p.ended <=> p.promise # "pending"
    /\ p.ended => p.child \in {"closed", "errored"}
    /\ p.ended => /\ TerminalCount(p) = 1
                  /\ p.feed[Len(p.feed)].kind = "status" <=> Exited(p, 0)
                  /\ p.feed[Len(p.feed)].kind = "error" =>
                        p.feed[Len(p.feed)].msg.text \in {<<>>, StderrTexts(p)}

\* C18: two inits of two different sessions, however their requests and
\* child events interleave: each has its own working directory with its
\* own main.tf, each feed carries all of its own child's output and none
\* of the other's, and each feed gets the terminal event of its own child.
C18_ConcurrentInitsIsolated ==
    \A i, j \in DOMAIN procs :
        TwoInits(i, j) =>
            LET p == procs[i]
                q == procs[j]
            IN  /\ EnvDir(p.sid) # EnvDir(q.sid)
                /\ EnvDir(p.sid) \in fsDirs /\ "main.tf" \in fsFiles[EnvDir(p.sid)]
                /\ LogTexts(p) = ArrivedTexts(p)
                /\ NoOutputOf(p, q)
                /\ OwnTerminal(p)

\* one init has failed on its own stderr text while the other, which has
\* produced output too, is still running
C18_Witness ==
    \E i, j \in DOMAIN procs :
        /\ TwoInits(i, j)
        /\ Exited(procs[i], 1) /\ procs[i].ended /\ StderrTexts(procs[i]) # <<>>
        /\ Running(procs[j]) /\ ~procs[j].ended /\ procs[j].arrived # <<>>

RegionUnknown(d) == d.hasEnv /\ d.region # NoRegion /\ d.region \notin AWS_REGIONS

\* C20: a render request without a name, without a region, or with a region
\* that is not a recognized one is answered with an error, and nothing is
\* rendered or written.  (The claim wants a validation error; any error
\* answer is let pass here.)
C20_InvalidRequestRejected ==
    [][\A d \in budget.descs :
          ((NameMissing(d) \/ RegionMissing(d) \/ RegionUnknown(d)) /\ Generate(d))
              => /\ reply' \in {400, 500}
                 /\ body'.kind = "error" /\ body'.text = <<>>
                 /\ UNCHANGED scoreDir]_vars

\* the error messages of the render endpoint; no other endpoint has them
GenerateErrors ==
    {"Application name is required", "AWS region is required",
     "Failed to generate score configuration"}

\* the answer after the step is an error of the render endpoint: the step
\* is such a request, or it is a step that sends no answer
GenerateFailed ==
    reply' \in {400, 500} /\ body'.kind = "error" /\ body'.error \in GenerateErrors

\* C21: a render request that is answered with an error has done no I/O:
\* the directory server/environment is not created and its score.yaml is
\* neither written nor overwritten.
C21_RejectedBeforeIO == [][GenerateFailed => UNCHANGED scoreDir]_vars

\* a request without services got as far as generateScoreYaml, was answered
\* 500, and the directory is still not there
C21_Witness ==
    /\ reply = 500
    /\ body = ErrorBody("Failed to generate score configuration")
    /\ ~scoreDir.exists /\ scoreDir.score = <<>>

\* ------------------------------------------------------------- fragments
Holds(text, token) == \E k \in DOMAIN text : text[k] = token

\* the score text has the fragment of the service
ScoreFragment(text, service) == Holds(text, service)

\* what the fragment of a service is in the terraform text
TerraformResource(service) ==
    CASE service = "database" -> "aws_db_instance"
      [] service = "cache" -> "aws_elasticache_cluster"
      [] service = "queue" -> "aws_mq_broker"

TerraformFragment(text, service) == Holds(text, TerraformResource(service))

\* C22: a rendered text has the fragment of a service exactly when the
\* request asks for the service, and it has the region of the request; a
\* service key the renderer does not know adds nothing and does not make
\* the render fail.  This holds of the score text and of the terraform text.
C22_FragmentIffRequested ==
    /\ rendered # <<>> =>
          /\ \A v \in KnownServices :
                ScoreFragment(rendered[1].text, v) <=> v \in rendered[1].desc.services
          /\ \A v \in ServiceKeys \ KnownServices : ~Holds(rendered[1].text, v)
          /\ Holds(rendered[1].text, rendered[1].desc.region)
    /\ hcl # <<>> =>
          /\ \A v \in KnownServices :
                TerraformFragment(hcl[1].text, v) <=> v \in hcl[1].desc.services
          /\ Holds(hcl[1].text, hcl[1].desc.region)

\* ---------------------------------------------------------------- main.tf
\* C23: an accepted init writes main.tf into the session's directory when
\* there is none, and leaves the text of a main.tf that is there as it is.
C23_InitWritesIfAbsent ==
    [][\A sid \in budget.sessions :
          Accepted("init", sid) =>
              IF mainTf[sid] = <<>> THEN mainTf'[sid] # <<>>
                                   ELSE mainTf'[sid] = mainTf[sid]]_vars

\* ------------------------------------------------------------ stored log
\* C24: the logs a status query returns are, in order, the log events
\* emitted so far on the session's feed (stated for a session with one
\* operation, whose feed holds log events).
C24_StoredLogIsFeedLog ==
    [][\A p \in Procs :
          (LogTexts(p) # <<>> /\ OpsOf(p.sid) = {p} /\ StatusQuery(p.sid))
              => /\ reply' = 200
                 /\ body'.kind = "status"
                 /\ body'.logs = LogTexts(p)]_vars

\* ---------------------------------------------------------------- origin
\* the stream a feed event names as the origin of its chunk
Origin(ev) == IF "stream" \in DOMAIN ev THEN ev.stream ELSE "none"

\* C25: there is one output event per chunk received on either stream, and
\* each of them records the stream its chunk came from.
C25_OncePerChunkWithOrigin ==
    \A p \in Procs :
        LET logs == SelectSeq(p.feed, IsLog)
        IN  /\ Len(logs) = Len(p.arrived)
            /\ \A k \in DOMAIN logs :
                  /\ logs[k].msg.text = <<p.arrived[k].text>>
                  /\ Origin(logs[k]) = p.arrived[k].stream

\* ----------------------------------------------------------------- C26
\* C26: every message of a feed carries exactly one of the keys log, error
\* and status, and a message with error or status is the last message of an
\* ended feed.
C26_OneKeyTerminalLast ==
    \A p \in Procs : \A k \in DOMAIN p.feed :
        /\ Payload(p.feed[k]) \subseteq {"log", "error", "status"}
        /\ Cardinality(Payload(p.feed[k])) = 1
        /\ Payload(p.feed[k]) \cap {"error", "status"} # {} =>
              k = Len(p.feed) /\ p.ended

\* a feed of a log event from standard error, a log event from standard
\* output and then the error event, and a feed that is the status alone
C26_Witness ==
    /\ \E p \in Procs :
          /\ Len(p.feed) = 3 /\ p.ended
          /\ p.arrived[1].stream = "stderr" /\ p.arrived[2].stream = "stdout"
          /\ Payload(p.feed[1]) = {"log"} /\ Payload(p.feed[2]) = {"log"}
          /\ Payload(p.feed[3]) = {"error"}
    /\ \E p \in Procs :
          /\ Len(p.feed) = 1 /\ p.ended
          /\ Payload(p.feed[1]) = {"status"}

Invoked(op, sid) ==
    /\ reply' = 200
    /\ IF op = "init"
       THEN \E region \in budget.regions, ok \in BOOLEAN :
               ~InitInvalid(sid, region) /\ TerraformInit(sid, region, ok)
       ELSE \E ok \in BOOLEAN :
               ~(SessionMissing(sid) \/ DirMissing(sid)) /\ Lifecycle(op, sid, ok)

\* a process record as spawn leaves it: nothing read, nothing written,
\* nothing settled
Fresh(p) ==
    /\ p.child \in {"running", "spawnfail"}
    /\ p.arrived = <<>> /\ p.feed = <<>> /\ p.exit = <<>>
    /\ p.promise = "pending" /\ ~p.ended

\* C28: each accepted lifecycle request adds exactly one process, a fresh
\* one of its own session and operation, next to the processes of the
\* earlier invocations, which it leaves as they are; and nothing but an
\* accepted lifecycle request adds a process.
C28_OneChildPerInvocation ==
    [][/\ \A op \in Ops, sid \in budget.sessions :
            Invoked(op, sid) =>
                /\ Len(procs') = Len(procs) + 1
                /\ SubSeq(procs', 1, Len(procs)) = procs
                /\ Fresh(procs'[Len(procs')])
                /\ procs'[Len(procs')].sid = sid
                /\ procs'[Len(procs')].op = op
       /\ Len(procs') # Len(procs) =>
            \E op \in Ops, sid \in budget.sessions : Invoked(op, sid)]_vars

\* two invocations for one session, each with a running child of its own
C28_Witness ==
    /\ Len(procs) = 2
    /\ procs[1].sid = procs[2].sid
    /\ procs[1].op = "init" /\ procs[2].op = "plan"
    /\ Running(procs[1]) /\ Running(procs[2])

\* ----------------------------------------------------------------- C29
\* C29: in every state in which the server can take a request, the health
\* probe can be answered, and its answer is 200 with status ok, whatever
\* sessions exist and whatever operations run or have failed.
C29_HealthAlwaysOk ==
    ~TickPending => ENABLED (Health /\ reply' = 200 /\ body' = HealthBody)

\* the probe answered ok while one operation runs and another has failed
C29_Witness ==
    /\ reply = 200 /\ body = HealthBody
    /\ \E p \in Procs : Running(p)
    /\ \E p \in Procs : p.promise = "rejected"
    /\ \E sid \in Sessions : phase[sid] = "error"

\* ----------------------------------------------------------------- C30
\* some feed has been opened and not ended
SomeFeedOpen == \E p \in Procs : ~p.ended

\* every feed has its terminal event as last message and is ended
AllFeedsClosed ==
    \A p \in Procs :
        p.ended /\ p.feed # <<>> /\ IsTerminal(p.feed[Len(p.feed)])

\* C30: given that a child exits or fails to spawn, every opened feed
\* eventually holds its terminal event and is ended; and at no time is a
\* feed open whose promise has settled.
C30_FeedEventuallyEnds ==
    /\ SomeFeedOpen ~> AllFeedsClosed
    /\ [](\A p \in Procs : p.promise # "pending" => p.ended)

\* the subscriber went away, the child failed later, and the feed was ended
\* with its error event all the same
C30_Witness ==
    \E p \in Procs :
        /\ p.sub = "gone"
        /\ ExitedNonZero(p)
        /\ p.promise = "rejected"
        /\ p.ended /\ p.feed[Len(p.feed)].kind = "error"

\* ----------------------------------------------------------------- C31
\* C31: once a feed holds its terminal event or is ended, no data callback
\* of its invocation runs any more and the feed stays as it is; this
\* includes the invocation whose child's 'error' event has fired and whose
\* 'close' is still to come.
C31_NoLogAfterTerminal ==
    [][\A i \in DOMAIN procs :
          (procs[i].ended \/ TerminalCount(procs[i]) > 0) =>
              /\ procs'[i].feed = procs[i].feed
              /\ procs'[i].arrived = procs[i].arrived]_vars

\* one feed was ended by the 'error' of a failed spawn with its 'close'
\* still to come, while the other invocation has taken output since
C31_Witness ==
    \E i, j \in DOMAIN procs :
        /\ i < j
        /\ procs[i].child = "errored" /\ procs[i].ended
        /\ procs[i].feed = <<ErrorEvent(SpawnError)>>
        /\ Running(procs[j]) /\ procs[j].arrived # <<>>

\* ----------------------------------------------------------------- C32
\* C32: the child of an operation on session S runs in the working directory
\* of S, whatever the process-wide current directory was or has become
\* through the requests of other sessions.
C32_ChildInOwnDirectory ==
    \A p \in Procs : p.dir = EnvDir(p.sid)

\* a child of one session runs after a later request has moved the
\* process-wide current directory to another session's
C32_Witness ==
    \E p \in Procs :
        /\ Running(p)
        /\ cwd \in Sessions /\ cwd # EnvDir(p.sid)
        /\ \E q \in Procs : q.sid = cwd /\ Running(q)

\* ----------------------------------------------------------------- C36
\* C36: the score text generated for a form submission in which the message
\* queue is ticked has the queue fragment.
C36_FormQueueRendered ==
    \A boxes \in SUBSET FormServices :
        ( /\ "messageQueue" \in boxes
          /\ rendered # <<>>
          /\ rendered[1].desc = FormData("orders", "eu-west-1", boxes) )
            => ScoreFragment(rendered[1].text, "queue")

\* ----------------------------------------------------------------- C37
\* C37: initTerraform, planTerraform and applyTerraform report success
\* exactly when the terraform command succeeded: failure on a non-zero exit
\* and on a failed spawn.
C37_SuccessIffCommandSucceeded ==
    called # <<>> =>
        (called[1].call.fn \in {"initTerraform", "planTerraform", "applyTerraform"}
            => called[1].result =
                 Returned(IF called[1].call.run.code = 0 THEN "success" ELSE "failure"))

\* ----------------------------------------------------------------- C38
\* C38: without a subscriber, output of the child raises no error and the
\* exit code alone decides: checkTerraformState returns true exactly when the
\* command exits 0, and getTerraformOutput returns the parsed output when
\* there is state and the output command succeeds.
C38_NoSubscriberByExitCode ==
    called # <<>> =>
        /\ called[1].result.kind = "returned"
        /\ called[1].call.fn = "checkTerraformState" =>
              called[1].result.value =
                 (IF called[1].call.run.code = 0 THEN "true" ELSE "false")
        /\ ( /\ called[1].call.fn = "getTerraformOutput"
             /\ called[1].call.run.code = 0
             /\ called[1].call.then.code = 0 ) =>
              called[1].result.value = "parsed"

\* ----------------------------------------------------------------- C33
\* C33: whenever the Apply button of the panel is enabled, the operation the
\* client completed last is a plan, and it completed successfully.
C33_ApplyOnlyAfterPlan ==
    (ui.panel /\ ApplyEnabled(ui.status)) =>
        /\ ui.last # <<>>
        /\ ui.last[1].op = "plan"
        /\ ui.last[1].why = "completed"

\* ----------------------------------------------------------------- C34
ProcessingStatuses ==
    {"initializing", "planning", "applying", "destroying", "processing"}

\* C34: in each of the five in-flight statuses every button is disabled; the
\* client never has more than one EventSource that is not closed, and has
\* one only while its status is in flight.
C34_OneOperationInFlight ==
    /\ \A st \in ProcessingStatuses :
          /\ \A op \in Ops : ~ButtonEnabled(op, st)
          /\ ~CancelEnabled(st)
    /\ Len(ui.srcs) <= 1
    /\ ui.srcs # <<>> => IsProcessing(ui.status)

\* an init is in flight: its feed is open and has delivered a log message
C34_Witness ==
    /\ ui.status = "initializing"
    /\ Len(ui.srcs) = 1 /\ ui.srcs[1].state = "open" /\ ui.srcs[1].seen = 1
    /\ ui.logs # <<>>
    /\ ~procs[ui.srcs[1].proc].ended

\* ----------------------------------------------------------------- C35
\* the client's status is completed only after the completed message of its
\* feed, and error only after an error message or an onerror
StatusFollowsFeed ==
    /\ ui.status = "completed" =>
          /\ ui.last # <<>> /\ ui.last[1].why = "completed"
          /\ procs[ui.last[1].proc].feed[ui.last[1].seen] = CompletedEvent
    /\ ui.status = "error" =>
          /\ ui.last # <<>>
          /\ \/ ui.last[1].why = "onerror"
             \/ /\ ui.last[1].why = "error"
                /\ procs[ui.last[1].proc].feed[ui.last[1].seen].kind = "error"

\* this step closes an EventSource: the status becomes what closed it
ClosingSets ==
    Len(ui'.srcs) < Len(ui.srcs) =>
        ui'.status = (IF ui'.last[1].why = "completed" THEN "completed" ELSE "error")

\* from completed or error the status, the logs and the error stay as they
\* are until the next click or cancel, which clears the logs
SettledStays ==
    ui.status \in {"completed", "error"} =>
        IF ui'.status = ui.status
        THEN ui'.logs = ui.logs /\ ui'.error = ui.error
        ELSE ui'.status \in ProcessingStatuses \cup {"idle"} /\ ui'.logs = <<>>

\* C35: the client's status is completed only if the completed message was
\* received, and error if an error message was received or the connection
\* ended first; once it is completed or error, no later message changes the
\* status or the logs.
C35_FeedEndDecidesStatus ==
    /\ []StatusFollowsFeed
    /\ [][ClosingSets /\ SettledStays]_vars

\* the client has shown a log message and then completed on the completed
\* message of its feed
C35_Witness ==
    /\ ui.status = "completed"
    /\ ui.logs # <<>>
    /\ ui.srcs = <<>>
    /\ ui.last # <<>> /\ ui.last[1].seen = 2
====
